---------------------------- MODULE Spec2Model ----------------------------
(***************************************************************************)
(* A model of cmplot (src/cmplot.py): the interval estimation helpers      *)
(* t_test_ci, hdi_from_mcmc and ttest_bayes_ci, the per-group dispatch of  *)
(* cmplot, its argument parsing and its trace building.                    *)
(*                                                                         *)
(* Numbers.  Posterior samples handed to hdi_from_mcmc are integers (the   *)
(* routine only sorts, subtracts and compares them).  Observations of the  *)
(* data frame are integers; the statistics derived from them (mean,        *)
(* standard error, quantiles, interval endpoints) are fixed-point numbers  *)
(* in units of 1/Unit, rounded down.  A level (confidence level, credible  *)
(* mass) is an exact fraction <<num, den>> with den > 0.                   *)
(***************************************************************************)
EXTENDS Integers, Sequences, FiniteSets

VARIABLES
    pc,                 \* position of the run: which part of cmplot runs next
    args,               \* the arguments cmplot was called with
    rng,                \* state of the process-wide random generator
    datas,              \* cmplot's list `datas` (stage 2)
    traces,             \* cmplot's list `traces` (stage 4)
    calls,              \* the estimator helpers invoked so far, in order:
                        \* the helper, the entry of datas it was invoked
                        \* for, the length of the sample it was given
    raised,             \* the exception that left cmplot, if any
    ret,                \* what cmplot returned, if it returned
    posterior_samples,  \* argument of a direct hdi_from_mcmc call
    credible_mass,      \* argument of a direct hdi_from_mcmc call
    hdi,                \* outcome of the latest direct hdi_from_mcmc call
    prev,               \* mass and outcome of the call before the latest
    y_val,              \* sample of a direct evaluation of the dispatch
    est                 \* outcome of that evaluation

vars == <<pc, args, rng, datas, traces, calls, raised, ret,
          posterior_samples, credible_mass, hdi, prev, y_val, est>>

--------------------------------------------------------------------------
(* Bounds of the model *)

\* longest sample handed directly to hdi_from_mcmc (general samples)
MaxSample == 4
\* largest value in such a sample (values are 0..MaxPoint)
MaxPoint == 2
\* longest evenly spaced sample
MaxRamp == 10
\* largest first value of an evenly spaced sample
MaxStart == 1
\* largest gap of an evenly spaced sample
MaxGap == 2

\* most observations in one group of the data frame
MaxObs == 2
\* largest gap between the observations of a group (0: all the same)
MaxSpread == 1
\* most (x-group, y-variable) pairs the data frame yields
MaxGroups == 2
\* largest hdi_iter
MaxIter == 2
\* largest initial state of the random generator
MaxSeed == 1

\* fixed-point scale of the derived statistics
Unit == 10 ^ 3

--------------------------------------------------------------------------
(* Levels *)

\* the levels tried: below 0, 0, inside (0,1), 1, above 1
Levels ==
    { <<-1, 2>>, <<0, 1>>, <<1, 4>>, <<1, 2>>, <<3, 4>>, <<19, 20>>,
      <<99, 100>>, <<1, 1>>, <<3, 2>> }

InOpenUnit(l) == 0 < l[1] /\ l[1] < l[2]

\* l1 <= l2 as fractions
LevelLeq(l1, l2) == l1[1] * l2[2] <= l2[1] * l1[2]

--------------------------------------------------------------------------
(* Python and numpy primitives used by the helpers *)

\* ceil(a / b) for b > 0
CeilDiv(a, b) == -((-a) \div b)

RECURSIVE Insert(_, _)
Insert(x, s) ==
    IF s = <<>> THEN <<x>>
    ELSE IF x < Head(s) THEN <<x>> \o s
    ELSE <<Head(s)>> \o Insert(x, Tail(s))

\* sorted(s): a new ascending list (insertion sort gives the same list as Timsort)
RECURSIVE SortAsc(_)
SortAsc(s) == IF s = <<>> THEN <<>> ELSE Insert(Head(s), SortAsc(Tail(s)))

sorted_unsorted(s) == s

sorted(s) == SortAsc(s)

\* the list handed to sorted(), after the call: sorted() builds a new list
\* and leaves its argument as it was (list.sort() would reorder it)
list_sort_in_place(s) == SortAsc(s)

posterior_samples_after(s) == s

\* list[j] of a list of length n is defined for -n <= j < n
InRange(n, j) == -n <= j /\ j < n

\* list[j]: a negative index counts from the end
PyIndex(s, j) == IF j >= 0 THEN s[j + 1] ELSE s[Len(s) + j + 1]

SeqMin(w) == CHOOSE m \in {w[i] : i \in 1..Len(w)} :
                 \A i \in 1..Len(w) : m <= w[i]

SeqMax(w) == CHOOSE m \in {w[i] : i \in 1..Len(w)} :
                 \A i \in 1..Len(w) : m >= w[i]

--------------------------------------------------------------------------
(* hdi_from_mcmc *)

\* an outcome of a helper: st is "idle" (not called), "returned" or "raised"
\* lo, hi: the pair returned; idx, end: the indices of sorted_points they
\* were read from; exc, at: the exception raised and the expression raising it
Idle ==
    [st |-> "idle", exc |-> "", at |-> "", lo |-> 0, hi |-> 0,
     idx |-> 0, end |-> 0]

HdiRaised(exc, at) ==
    [st |-> "raised", exc |-> exc, at |-> at, lo |-> 0, hi |-> 0,
     idx |-> 0, end |-> 0]

HdiReturned(lo, hi, idx, end) ==
    [st |-> "returned", exc |-> "", at |-> "", lo |-> lo, hi |-> hi,
     idx |-> idx, end |-> end]

\* np.ceil(credible_mass * len(sorted_points)).astype('int')
ci_idx_inc_tail(cm, n) == CeilDiv((cm[2] - cm[1]) * n, cm[2])

ci_idx_inc_of(cm, n) == CeilDiv(cm[1] * n, cm[2])

\* ci_width.index(min(ci_width)), 0-based: the first index of the minimum
IndexOfMin_last(w) ==
    (CHOOSE i \in 1..Len(w) :
        w[i] = SeqMin(w) /\ \A j \in (i + 1)..Len(w) : w[j] # SeqMin(w)) - 1

IndexOfMin_max(w) ==
    (CHOOSE i \in 1..Len(w) :
        w[i] = SeqMax(w) /\ \A j \in 1..(i - 1) : w[j] # SeqMax(w)) - 1

IndexOfMin(w) ==
    (CHOOSE i \in 1..Len(w) :
        w[i] = SeqMin(w) /\ \A j \in 1..(i - 1) : w[j] # SeqMin(w)) - 1

hdi_from_mcmc(samples, cm) ==
    LET sorted_points == sorted(samples)
        n == Len(sorted_points)
        ci_idx_inc == ci_idx_inc_of(cm, n)
        n_ci == n - ci_idx_inc
        \* the scan reads sorted_points[i + ci_idx_inc] and sorted_points[i]
        scan_ok == \A i \in 0..(n_ci - 1) :
                       InRange(n, i + ci_idx_inc) /\ InRange(n, i)
    IN  IF ~scan_ok THEN HdiRaised("IndexError", "sorted_points[]")
        ELSE IF n_ci <= 0 THEN HdiRaised("ValueError", "min(ci_width)")
        ELSE
            LET ci_width == [i \in 1..n_ci |->
                                PyIndex(sorted_points, i - 1 + ci_idx_inc)
                                - PyIndex(sorted_points, i - 1)]
                idx == IndexOfMin(ci_width)
            IN  HdiReturned(PyIndex(sorted_points, idx),
                            PyIndex(sorted_points, idx + ci_idx_inc),
                            idx, idx + ci_idx_inc)

--------------------------------------------------------------------------
(* Floating point values: v/Unit (finite), nan, inf, -inf, and Python None *)

Num(v) == [k |-> "num", v |-> v]
NaN == [k |-> "nan", v |-> 0]
PosInf == [k |-> "inf", v |-> 0]
NegInf == [k |-> "-inf", v |-> 0]
None == [k |-> "None", v |-> 0]

RECURSIVE SeqSum(_)
SeqSum(s) == IF s = <<>> THEN 0 ELSE Head(s) + SeqSum(Tail(s))

\* the largest r in lo..hi with r * r <= x
RECURSIVE ISqrtIn(_, _, _)
ISqrtIn(lo, hi, x) ==
    IF lo >= hi THEN lo
    ELSE LET mid == (lo + hi + 1) \div 2
         IN  IF mid * mid <= x THEN ISqrtIn(mid, hi, x)
             ELSE ISqrtIn(lo, mid - 1, x)

ISqrt(x) == ISqrtIn(0, IF x < 46340 THEN x ELSE 46340, x)

\* np.mean(x): nan for an empty x
np_mean(x) ==
    IF Len(x) = 0 THEN NaN ELSE Num((SeqSum(x) * Unit) \div Len(x))

\* sum((n * x_i - sum(x))^2) = n^2 * sum((x_i - mean)^2)
SumSqDev(x) ==
    SeqSum([i \in 1..Len(x) |->
               (Len(x) * x[i] - SeqSum(x)) * (Len(x) * x[i] - SeqSum(x))])

\* np.std(x) = sqrt(mean(abs(x - mean)^2)): the divisor is n
np_std_sample(x) ==
    IF Len(x) <= 1 THEN NaN
    ELSE LET n == Len(x)
         IN  Num(ISqrt((((SumSqDev(x) * Unit) \div (n * n)) * Unit)
                       \div (n - 1)))

np_std(x) ==
    IF Len(x) = 0 THEN NaN
    ELSE LET n == Len(x)
         IN  Num(ISqrt((((SumSqDev(x) * Unit) \div (n * n)) * Unit) \div n))

\* np.sqrt(n)
np_sqrt(n) == ISqrt(n * Unit * Unit)

\* np.std(x_val) / np.sqrt(len(x_val)); nan / 0.0 is nan
std_err_of(x) ==
    IF Len(x) = 0 THEN NaN
    ELSE Num((np_std(x).v * Unit) \div np_sqrt(Len(x)))

\* an outcome of an estimator: returned (lo, hi) or raised exc at `at`
EstIdle == [st |-> "idle", exc |-> "", at |-> "", lo |-> None, hi |-> None]

EstRaised(exc, at) ==
    [st |-> "raised", exc |-> exc, at |-> at, lo |-> None, hi |-> None]

EstReturned(lo, hi) ==
    [st |-> "returned", exc |-> "", at |-> "", lo |-> lo, hi |-> hi]

--------------------------------------------------------------------------
(* scipy.stats.t *)

\* t.ppf((1 + conf) / 2, df) in 1/Unit, for the levels inside (0, 1) and
\* df = 1..11
TQuantile(conf, df) ==
    CASE conf = <<1, 4>> ->
           <<414, 365, 349, 341, 337, 334, 331, 330, 329, 328, 327>>[df]
      [] conf = <<1, 2>> ->
           <<1000, 816, 765, 741, 727, 718, 711, 706, 703, 700, 697>>[df]
      [] conf = <<3, 4>> ->
           <<2414, 1604, 1423, 1344, 1301, 1273, 1254, 1240, 1230, 1221,
             1214>>[df]
      [] conf = <<19, 20>> ->
           <<12706, 4303, 3182, 2776, 2571, 2447, 2365, 2306, 2262, 2228,
             2201>>[df]
      [] conf = <<99, 100>> ->
           <<63657, 9925, 5841, 4604, 4032, 3707, 3499, 3355, 3250, 3169,
             3106>>[df]

\* t.interval(conf, df, loc=loc, scale=scale): a level outside [0, 1] is
\* refused; ppf is nan unless df > 0, scale > 0 and loc is a number; the
\* quantiles at 0 and 1 are -inf and inf; the median is loc
t_interval(conf, df, loc, scale) ==
    IF conf[1] < 0 \/ conf[1] > conf[2]
    THEN EstRaised("ValueError", "t.interval")
    ELSE IF ~(df > 0 /\ scale.k = "num" /\ scale.v > 0 /\ loc.k = "num")
    THEN EstReturned(NaN, NaN)
    ELSE IF conf[1] = conf[2] THEN EstReturned(NegInf, PosInf)
    ELSE IF conf[1] = 0 THEN EstReturned(loc, loc)
    ELSE LET half == (TQuantile(conf, df) * scale.v) \div Unit
         IN  EstReturned(Num(loc.v - half), Num(loc.v + half))

\* the values the process-wide generator hands out, in 1/Unit; its state
\* is the position in this cycle
TDraws == <<-1376, -325, 0, 727, 2920, -816, 1061>>

\* the i-th value drawn from state s, and the state after n draws
RngDraw(s, i) == TDraws[((s + i - 1) % Len(TDraws)) + 1]

RngAfter(s, n) == (s + n) % Len(TDraws)

--------------------------------------------------------------------------
(* t_test_ci, ttest_bayes_ci, np.quantile *)

t_test_ci(x_val, conf_level) ==
    LET deg_freedom == Len(x_val) - 1
    IN  t_interval(conf_level, deg_freedom, np_mean(x_val), std_err_of(x_val))

\* t.rvs(dof, size=iterations) refuses dof <= 0 (ValueError); otherwise the
\* draws are scaled by std_err, shifted by xmean and reduced by hdi_from_mcmc
ttest_bayes_ci(x_val, iterations, cm, s) ==
    LET num == Len(x_val)
        dof == num - 1
        xmean == np_mean(x_val)
        std_err == std_err_of(x_val)
    IN  IF dof <= 0 THEN EstRaised("ValueError", "t.rvs")
        ELSE
            LET t_s == [i \in 1..iterations |->
                           (std_err.v * RngDraw(s, i)) \div Unit + xmean.v]
                h == hdi_from_mcmc(t_s, cm)
            IN  IF h.st = "raised" THEN EstRaised(h.exc, h.at)
                ELSE EstReturned(Num(h.lo), Num(h.hi))

\* what t_test_ci hands to t.interval: the degrees of freedom, loc, scale
t_test_ci_args(x_val) ==
    [df |-> Len(x_val) - 1, loc |-> np_mean(x_val),
     scale |-> std_err_of(x_val)]

\* dof, xmean and std_err of ttest_bayes_ci
ttest_bayes_ci_args(x_val) ==
    [df |-> Len(x_val) - 1, loc |-> np_mean(x_val),
     scale |-> std_err_of(x_val)]

\* np.quantile(x, p) for p = pn/pd, linear interpolation: the value at
\* position p * (n - 1) of the sorted sample
quantile_nearest_below(x, pn, pd) ==
    Num(SortAsc(x)[(pn * (Len(x) - 1)) \div pd + 1] * Unit)

quantile(x, pn, pd) ==
    LET s == SortAsc(x)
        n == Len(x)
        j == (pn * (n - 1)) \div pd
        r == (pn * (n - 1)) % pd
    IN  IF r = 0 THEN Num(s[j + 1] * Unit)
        ELSE Num(s[j + 1] * Unit + ((s[j + 2] - s[j + 1]) * Unit * r) \div pd)

--------------------------------------------------------------------------
(* The dispatch of cmplot: the interval of one (x-group, y-variable) pair *)

\* len(y_val) < 2
cannot_compute_inf_below_one(y) == Len(y) < 1

cannot_compute_inf(y) == Len(y) < 2

\* the array y_val after the interval was computed: len, np.mean, np.std
\* and np.quantile (overwrite_input=False) read it, none writes to it
y_val_after(y, inf) == y

\* the length of the sample a helper is given: y_val, except that
\* ttest_bayes_ci hands hdi_from_mcmc the hdi_iter values of t_s
helper_len(fn, y, hdi_iter) ==
    IF fn = "hdi_from_mcmc" THEN hdi_iter ELSE Len(y)

\* the outcome, the generator's state afterwards, the helpers invoked
Dispatched(r, s, helpers) ==
    [st |-> r.st, exc |-> r.exc, at |-> r.at, lo |-> r.lo, hi |-> r.hi,
     rng |-> s, helpers |-> helpers]

dispatch(y, inf, conf_level, hdi_iter, s) ==
    IF cannot_compute_inf(y) THEN Dispatched(EstReturned(None, None), s, <<>>)
    ELSE IF inf = "hdi" THEN
        Dispatched(ttest_bayes_ci(y, hdi_iter, conf_level, s),
                   IF Len(y) - 1 <= 0 THEN s ELSE RngAfter(s, hdi_iter),
                   IF Len(y) - 1 <= 0 THEN <<"ttest_bayes_ci">>
                   ELSE <<"ttest_bayes_ci", "hdi_from_mcmc">>)
    ELSE IF inf = "ci" THEN
        Dispatched(t_test_ci(y, conf_level), s, <<"t_test_ci">>)
    ELSE IF inf = "iqr" THEN
        Dispatched(EstReturned(quantile(y, 1, 4), quantile(y, 3, 4)), s,
                   <<"quantile">>)
    ELSE Dispatched(EstReturned(None, None), s, <<>>)

--------------------------------------------------------------------------
(* cmplot *)

\* data_frame.columns: one categorical column and one continuous column
DfCols == {"g", "y"}

ToSet(s) == {s[i] : i \in 1..Len(s)}

NoExc == [exc |-> "", at |-> ""]

Exc(exc, at) == [exc |-> exc, at |-> at]

\* inf in ('hdi', 'ci', 'iqr', 'none')
inf_unchecked(inf) == TRUE

inf_is_valid(inf) == inf \in {"hdi", "ci", "iqr", "none"}

\* stage 1, arguments' parsing: the first check that fails raises
ParseError(a) ==
    LET xsymbols == a.xcol.cols
        ysymbols == a.ycol.cols
    IN  IF a.xcol.none THEN Exc("TypeError", "xcol")
        ELSE IF Cardinality(ToSet(xsymbols) \cap DfCols)
                    # Cardinality(ToSet(xsymbols))
        THEN Exc("ValueError", "xcol")
        ELSE IF ~a.ycol.none
                /\ Cardinality(ToSet(ysymbols) \cap DfCols)
                       # Cardinality(ToSet(ysymbols))
        THEN Exc("ValueError", "ycol")
        ELSE IF ~a.ycol.none /\ ToSet(xsymbols) \cap ToSet(ysymbols) # {}
        THEN Exc("ValueError", "ycol and xcol")
        ELSE IF a.orientation \notin {"v", "h"}
        THEN Exc("ValueError", "orientation")
        ELSE IF ~inf_is_valid(a.inf) THEN Exc("ValueError", "inf")
        ELSE IF a.spanmode \notin {"None", "soft", "hard"}
        THEN Exc("ValueError", "spanmode")
        ELSE NoExc

ParseArgs ==
    /\ pc = "parse"
    /\ IF ParseError(args) # NoExc
       THEN pc' = "raised" /\ raised' = ParseError(args)
       ELSE pc' = "groups" /\ raised' = raised
    /\ UNCHANGED <<args, rng, datas, traces, calls, ret,
                   posterior_samples, credible_mass, hdi, prev, y_val, est>>

\* the observations of one group: 1, 1+g, 1+2g, ...
GroupSamples ==
    {[i \in 1..n |-> 1 + (i - 1) * g] : g \in 0..MaxSpread, n \in 0..MaxObs}

\* stage 2, one turn of the loop over the groups and the y columns: the
\* group's values are read, the interval is computed, the entry is appended
GroupStep ==
    /\ pc = "groups"
    /\ Len(datas) < MaxGroups
    /\ \E y \in GroupSamples :
        LET r == dispatch(y, args.inf, args.conf_level, args.hdi_iter, rng)
            n == Len(datas) + 1
        IN  /\ rng' = r.rng
            /\ calls' = calls \o [i \in 1..Len(r.helpers) |->
                                     [fn |-> r.helpers[i], entry |-> n,
                                      len |-> helper_len(r.helpers[i], y,
                                                         args.hdi_iter)]]
            /\ IF r.st = "raised"
               THEN /\ pc' = "raised"
                    /\ raised' = Exc(r.exc, r.at)
                    /\ datas' = datas
               ELSE /\ pc' = pc
                    /\ raised' = raised
                    /\ datas' = Append(datas,
                                   [xvalue |-> n,
                                    y_val |-> y_val_after(y, args.inf),
                                    lo |-> r.lo, hi |-> r.hi])
    /\ UNCHANGED <<args, traces, ret,
                   posterior_samples, credible_mass, hdi, prev, y_val, est>>

\* stage 3, styling and colours with the default arguments: the colour step
\* is colorend // colorarraylength, and colorarraylength is the number of
\* distinct y names in datas
Style ==
    /\ pc = "groups"
    /\ IF Len(datas) = 0
       THEN pc' = "raised" /\ raised' = Exc("ZeroDivisionError", "colorstep")
       ELSE pc' = "traces" /\ raised' = raised
    /\ UNCHANGED <<args, rng, datas, traces, calls, ret,
                   posterior_samples, credible_mass, hdi, prev, y_val, est>>

\* the entries of datas already turned into traces
Traced == Cardinality({i \in 1..Len(traces) : traces[i].kind = "main"})

\* the traces one entry of datas adds: the main trace, the reduced points
\* trace, the interval band
TracesOf_band_always(i, data, pointsmaxdisplayed) ==
    <<[kind |-> "main", entry |-> i, span |-> <<None, None>>]>>
    \o (IF pointsmaxdisplayed # 0 /\ pointsmaxdisplayed < Len(data.y_val)
        THEN <<[kind |-> "points", entry |-> i, span |-> <<None, None>>]>>
        ELSE <<>>)
    \o <<[kind |-> "band", entry |-> i, span |-> <<data.lo, data.hi>>]>>

TracesOf(i, data, pointsmaxdisplayed) ==
    <<[kind |-> "main", entry |-> i, span |-> <<None, None>>]>>
    \o (IF pointsmaxdisplayed # 0 /\ pointsmaxdisplayed < Len(data.y_val)
        THEN <<[kind |-> "points", entry |-> i, span |-> <<None, None>>]>>
        ELSE <<>>)
    \o (IF data.lo # None
        THEN <<[kind |-> "band", entry |-> i, span |-> <<data.lo, data.hi>>]>>
        ELSE <<>>)

\* stage 4, one turn of the loop over datas
TraceStep ==
    /\ pc = "traces"
    /\ Traced < Len(datas)
    /\ traces' = traces \o TracesOf(Traced + 1, datas[Traced + 1],
                                    args.pointsmaxdisplayed)
    /\ UNCHANGED <<pc, args, rng, datas, calls, raised, ret,
                   posterior_samples, credible_mass, hdi, prev, y_val, est>>

NoRet == [returned |-> FALSE, traces |-> <<>>]

\* stages 5 and 6: the layout is built, traces and layout are returned
Return ==
    /\ pc = "traces"
    /\ Traced = Len(datas)
    /\ pc' = "done"
    /\ ret' = [returned |-> TRUE, traces |-> traces]
    /\ UNCHANGED <<args, rng, datas, traces, calls, raised,
                   posterior_samples, credible_mass, hdi, prev, y_val, est>>

\* the levels cmplot is called with
CmplotLevels == { <<0, 1>>, <<1, 2>>, <<1, 1>>, <<3, 2>> }

Given(cols) == [none |-> FALSE, cols |-> cols]

NotGiven == [none |-> TRUE, cols |-> <<>>]

CmplotArgs ==
    [xcol : {NotGiven, Given(<<"g">>), Given(<<"q">>)},
     ycol : {NotGiven, Given(<<"q">>), Given(<<"g">>)},
     orientation : {"h", "x"},
     inf : {"hdi", "ci", "iqr", "none", "bogus"},
     conf_level : CmplotLevels,
     hdi_iter : 1..MaxIter,
     spanmode : {"None", "bogus"},
     pointsmaxdisplayed : {0, 1}]

Init ==
    /\ pc = "parse"
    /\ args \in CmplotArgs
    /\ rng \in 0..MaxSeed
    /\ datas = <<>>
    /\ traces = <<>>
    /\ calls = <<>>
    /\ raised = NoExc
    /\ ret = NoRet
    /\ posterior_samples = <<>>
    /\ credible_mass = <<0, 1>>
    /\ hdi = Idle
    /\ prev = [mass |-> <<0, 1>>, hdi |-> Idle]
    /\ y_val = <<>>
    /\ est = EstIdle

Next == ParseArgs \/ GroupStep \/ Style \/ TraceStep \/ Return

Spec == Init /\ [][Next]_vars

--------------------------------------------------------------------------
(* Direct calls of hdi_from_mcmc *)

RECURSIVE SeqsOfLen(_, _)
SeqsOfLen(S, k) ==
    IF k = 0 THEN {<<>>}
    ELSE {Append(s, x) : s \in SeqsOfLen(S, k - 1), x \in S}

SeqsUpTo(S, k) == UNION {SeqsOfLen(S, j) : j \in 0..k}

\* a, a+g, a+2g, ... (n values), ascending or descending
Ramp(a, g, n, up) ==
    [i \in 1..n |-> IF up THEN a + (i - 1) * g ELSE a + (n - i) * g]

Ramps ==
    {Ramp(a, g, n, up) : a \in 0..MaxStart, g \in 1..MaxGap,
                         n \in 0..MaxRamp, up \in BOOLEAN}

HdiSamples == SeqsUpTo(0..MaxPoint, MaxSample) \cup Ramps

\* the defaults of cmplot's signature
NoArgs ==
    [xcol |-> NotGiven, ycol |-> NotGiven, orientation |-> "h",
     inf |-> "hdi", conf_level |-> <<19, 20>>, hdi_iter |-> 10000,
     spanmode |-> "None", pointsmaxdisplayed |-> 0]

NoPrev == [mass |-> <<0, 1>>, hdi |-> Idle]

InitHdi ==
    /\ pc = "hdi_from_mcmc"
    /\ posterior_samples \in HdiSamples
    /\ credible_mass = <<0, 1>>
    /\ hdi = Idle
    /\ prev = NoPrev
    /\ args = NoArgs
    /\ rng = 0
    /\ datas = <<>>
    /\ traces = <<>>
    /\ calls = <<>>
    /\ raised = NoExc
    /\ ret = NoRet
    /\ y_val = <<>>
    /\ est = EstIdle

\* hdi_from_mcmc(posterior_samples, credible_mass=m), again and again on
\* the same sample
HdiCall ==
    /\ pc = "hdi_from_mcmc"
    /\ \E m \in Levels :
        /\ credible_mass' = m
        /\ hdi' = hdi_from_mcmc(posterior_samples, m)
        /\ prev' = [mass |-> credible_mass, hdi |-> hdi]
    /\ posterior_samples' = posterior_samples_after(posterior_samples)
    /\ UNCHANGED <<pc, args, rng, datas, traces, calls, raised, ret,
                   y_val, est>>

NextHdi == HdiCall

SpecHdi == InitHdi /\ [][NextHdi]_vars

--------------------------------------------------------------------------
(* Direct evaluations of the dispatch on one sample *)

EstSamples == SeqsUpTo(0..MaxPoint, MaxObs + 1) \cup Ramps

InitEst ==
    /\ pc = "dispatch"
    /\ y_val \in EstSamples
    /\ args \in [xcol : {Given(<<"g">>)}, ycol : {NotGiven},
                 orientation : {"h"},
                 inf : {"hdi", "ci", "iqr", "none"},
                 conf_level : Levels,
                 hdi_iter : 1..MaxIter,
                 spanmode : {"None"},
                 pointsmaxdisplayed : {0}]
    /\ rng \in 0..MaxSeed
    /\ est = EstIdle
    /\ datas = <<>>
    /\ traces = <<>>
    /\ calls = <<>>
    /\ raised = NoExc
    /\ ret = NoRet
    /\ posterior_samples = <<>>
    /\ credible_mass = <<0, 1>>
    /\ hdi = Idle
    /\ prev = NoPrev

\* lines 352-359 of cmplot on y_val
EstCall ==
    /\ pc = "dispatch"
    /\ LET r == dispatch(y_val, args.inf, args.conf_level, args.hdi_iter, rng)
       IN  /\ est' = [st |-> r.st, exc |-> r.exc, at |-> r.at,
                      lo |-> r.lo, hi |-> r.hi]
           /\ rng' = r.rng
           /\ calls' = [i \in 1..Len(r.helpers) |->
                           [fn |-> r.helpers[i], entry |-> 1,
                            len |-> helper_len(r.helpers[i], y_val,
                                               args.hdi_iter)]]
           /\ datas' = IF r.st = "raised" THEN datas
                       ELSE <<[xvalue |-> 1,
                               y_val |-> y_val_after(y_val, args.inf),
                               lo |-> r.lo, hi |-> r.hi]>>
    /\ y_val' = y_val_after(y_val, args.inf)
    /\ pc' = "dispatched"
    /\ UNCHANGED <<args, traces, raised, ret,
                   posterior_samples, credible_mass, hdi, prev>>

NextEst == EstCall

SpecEst == InitEst /\ [][NextEst]_vars

--------------------------------------------------------------------------
(* Direct calls of hdi_from_mcmc and evaluations of the dispatch together *)

InitFrame == InitHdi \/ InitEst

NextFrame == HdiCall \/ EstCall

SpecFrame == InitFrame /\ [][NextFrame]_vars

--------------------------------------------------------------------------
(* Direct calls of t_test_ci and ttest_bayes_ci on one sample *)

DirectHelpers == {"t_test_ci", "ttest_bayes_ci"}

InitDirect ==
    /\ pc = "helper"
    /\ y_val \in EstSamples
    /\ args \in [xcol : {NotGiven}, ycol : {NotGiven},
                 orientation : {"h"},
                 inf : {"none"},
                 conf_level : Levels,
                 hdi_iter : 1..MaxIter,
                 spanmode : {"None"},
                 pointsmaxdisplayed : {0}]
    /\ rng \in 0..MaxSeed
    /\ est = EstIdle
    /\ datas = <<>>
    /\ traces = <<>>
    /\ calls = <<>>
    /\ raised = NoExc
    /\ ret = NoRet
    /\ posterior_samples = <<>>
    /\ credible_mass = <<0, 1>>
    /\ hdi = Idle
    /\ prev = NoPrev

\* t_test_ci(y_val, conf_level) or ttest_bayes_ci(y_val, hdi_iter,
\* conf_level), called without the guard of the dispatch
HelperCall ==
    /\ pc = "helper"
    /\ \E fn \in DirectHelpers :
        LET r == IF fn = "t_test_ci" THEN t_test_ci(y_val, args.conf_level)
                 ELSE ttest_bayes_ci(y_val, args.hdi_iter, args.conf_level,
                                     rng)
            a == IF fn = "t_test_ci" THEN t_test_ci_args(y_val)
                 ELSE ttest_bayes_ci_args(y_val)
        IN  /\ est' = r
            /\ calls' = <<[fn |-> fn, entry |-> 0, len |-> Len(y_val),
                           df |-> a.df, loc |-> a.loc, scale |-> a.scale]>>
            /\ rng' = IF fn = "ttest_bayes_ci" /\ a.df > 0
                      THEN RngAfter(rng, args.hdi_iter) ELSE rng
    /\ pc' = "helper_done"
    /\ UNCHANGED <<args, datas, traces, raised, ret,
                   posterior_samples, credible_mass, hdi, prev, y_val>>

NextDirect == HelperCall

SpecDirect == InitDirect /\ [][NextDirect]_vars

--------------------------------------------------------------------------
(* Properties of hdi_from_mcmc, read off the latest direct call *)

HdiCalled == pc = "hdi_from_mcmc" /\ hdi.st # "idle"

\* the ascending sample S, its length n, k = ceil(credible_mass * n)
HdiS == SortAsc(posterior_samples)
HdiN == Len(posterior_samples)
HdiK == CeilDiv(credible_mass[1] * HdiN, credible_mass[2])

Width(r) == r.hi - r.lo

\* how many values of s lie in [lo, hi]
CountIn(s, lo, hi) == Cardinality({j \in 1..Len(s) : lo <= s[j] /\ s[j] <= hi})

EvenlySpaced(s) ==
    \A i \in 1..(Len(s) - 2) : s[i + 1] - s[i] = s[i + 2] - s[i + 1]

OneToTen == [i \in 1..10 |-> i]

\* C1: when at least one window fits (n - k > 0), the interval returned is
\* no wider than any candidate window S[i+k] - S[i], 0 <= i < n - k; and
\* for k >= 0 an interval is returned.
HdiShortestWindow ==
    (HdiCalled /\ HdiN - HdiK > 0) =>
        /\ HdiK >= 0 => hdi.st = "returned"
        /\ hdi.st = "returned" =>
              \A i \in 0..(HdiN - HdiK - 1) :
                  Width(hdi) <= HdiS[i + HdiK + 1] - HdiS[i + 1]

\* C1 witness: several windows fit, one of them is wider than the one
\* returned, and the one returned does not start at index 0
HdiShortestWindowSeen ==
    /\ HdiCalled /\ hdi.st = "returned" /\ HdiN - HdiK >= 2
    /\ hdi.idx > 0
    /\ \E i \in 0..(HdiN - HdiK - 1) :
           Width(hdi) < HdiS[i + HdiK + 1] - HdiS[i + 1]

\* C2 as stated: for an evenly spaced sample and credible mass 0.5 the
\* window returned covers exactly k = ceil(credible_mass * n) sorted points,
\* and for [1..10] the result is (1, 5).
HdiEvenCoversCeilPoints ==
    (HdiCalled /\ credible_mass = <<1, 2>> /\ EvenlySpaced(HdiS)
        /\ hdi.st = "returned") =>
        /\ hdi.idx = 0
        /\ hdi.end - hdi.idx + 1 = HdiK
        /\ HdiS = OneToTen => (hdi.lo = 1 /\ hdi.hi = 5)

\* C2 amended: for an evenly spaced sample and credible mass 0.5 in which a
\* window fits, the first window by ascending start index is returned,
\* (S[0], S[k]) with k = ceil(credible_mass * n): it spans k + 1 sorted
\* points (indices 0..k); for [1..10] the result is (1, 6), 6 points.
HdiEvenFirstWindow ==
    (HdiCalled /\ credible_mass = <<1, 2>> /\ EvenlySpaced(HdiS)
        /\ HdiN - HdiK > 0) =>
        /\ hdi.st = "returned"
        /\ hdi.idx = 0 /\ hdi.end = HdiK
        /\ hdi.lo = HdiS[1] /\ hdi.hi = HdiS[HdiK + 1]
        /\ hdi.end - hdi.idx + 1 = HdiK + 1
        /\ HdiS[1] < HdiS[HdiN] =>
              CountIn(posterior_samples, hdi.lo, hdi.hi) = HdiK + 1
        /\ HdiS = OneToTen => (hdi.lo = 1 /\ hdi.hi = 6)

\* C2 witness: the call on a permutation of [1..10] with mass 0.5 returned
\* (1, 6)
HdiEvenFirstWindowSeen ==
    /\ HdiCalled /\ credible_mass = <<1, 2>> /\ HdiS = OneToTen
    /\ hdi.st = "returned" /\ hdi.lo = 1 /\ hdi.hi = 6

\* C3: the interval returned runs from a start index to an end index of the
\* sorted sample with at least k = ceil(credible_mass * n) elements between
\* them (inclusive), and at least k values of the sample lie in [low, high].
HdiContainment ==
    (HdiCalled /\ hdi.st = "returned") =>
        /\ 0 <= hdi.idx /\ hdi.idx <= hdi.end /\ hdi.end <= HdiN - 1
        /\ hdi.lo = HdiS[hdi.idx + 1] /\ hdi.hi = HdiS[hdi.end + 1]
        /\ hdi.end - hdi.idx + 1 >= HdiK
        /\ CountIn(posterior_samples, hdi.lo, hdi.hi) >= HdiK

\* C3 witness: a window of k >= 2 index steps was returned that holds
\* exactly k + 1 values of the sample
HdiContainmentSeen ==
    /\ HdiCalled /\ hdi.st = "returned" /\ HdiK >= 2
    /\ CountIn(posterior_samples, hdi.lo, hdi.hi) = HdiK + 1

\* C4: of two calls on the same sample that both returned, the one with
\* the larger credible mass returned an interval at least as wide.
HdiMonotone ==
    (HdiCalled /\ hdi.st = "returned" /\ prev.hdi.st = "returned") =>
        /\ LevelLeq(prev.mass, credible_mass) => Width(prev.hdi) <= Width(hdi)
        /\ LevelLeq(credible_mass, prev.mass) => Width(hdi) <= Width(prev.hdi)

\* C4 witness: two calls returned, the later one with a larger mass and a
\* strictly wider interval
HdiMonotoneSeen ==
    /\ HdiCalled /\ hdi.st = "returned" /\ prev.hdi.st = "returned"
    /\ LevelLeq(prev.mass, credible_mass) /\ prev.mass # credible_mass
    /\ Width(prev.hdi) < Width(hdi)

\* C5 as stated: when n - ceil(credible_mass * n) <= 0 the call is stopped
\* by an explicit guard raising the dedicated "sample too small" error,
\* before the scan and before min() of the empty width list.
HdiTooSmallGuarded ==
    (HdiCalled /\ HdiN - HdiK <= 0) =>
        /\ hdi.st = "raised"
        /\ hdi.exc = "InvalidArgument"
        /\ hdi.at = "n_ci <= 0"

--------------------------------------------------------------------------
(* Properties of the dispatch and of cmplot *)

\* the places of stage 1 that raise
ParseSites == {"xcol", "ycol", "ycol and xcol", "orientation", "inf", "spanmode"}

Methods == {"hdi", "ci", "iqr", "none"}

\* C6: an entry whose sample has fewer than 2 observations gets the
\* undefined interval (None, None) whatever the method; no estimator helper
\* is invoked for it (the estimators given y_val only ever see samples of 2
\* or more; hdi_from_mcmc is given the hdi_iter values of t_s), and an
\* exception leaves stage 2 only from a helper that was invoked.
DegenerateGuard ==
    /\ \A i \in 1..Len(datas) :
           Len(datas[i].y_val) < 2 =>
               /\ datas[i].lo = None /\ datas[i].hi = None
               /\ \A c \in 1..Len(calls) : calls[c].entry # i
    /\ \A c \in 1..Len(calls) :
           calls[c].fn # "hdi_from_mcmc" => calls[c].len >= 2
    /\ (pc = "raised" /\ raised.at \notin ParseSites \cup {"colorstep"}) =>
           \E c \in 1..Len(calls) : calls[c].entry = Len(datas) + 1

\* C6 witness: a run with method 'ci' went through a group of no
\* observations and a group of one observation and returned
DegenerateGuardSeen ==
    /\ pc = "done" /\ args.inf = "ci"
    /\ \E i, j \in 1..Len(datas) :
           /\ Len(datas[i].y_val) = 0 /\ Len(datas[j].y_val) = 1
           /\ datas[i].lo = None /\ datas[j].hi = None

\* v is the value at position (pn/pd) * (n - 1) of the ascending sample s,
\* interpolated linearly between its neighbours (v in 1/Unit)
LinearQuantileIs(s, pn, pd, v) ==
    LET j == (pn * (Len(s) - 1)) \div pd
        r == (pn * (Len(s) - 1)) % pd
    IN  pd * v = (pd - r) * s[j + 1] * Unit
                 + (IF r = 0 THEN 0 ELSE r * s[j + 2] * Unit)

\* C7: for a sample of 2 or more observations method 'iqr' yields the 25th
\* and 75th percentiles under linear interpolation; for [1..10] these are
\* 3.25 and 7.75.
IqrLinearInterpolation ==
    (pc = "dispatched" /\ args.inf = "iqr" /\ Len(y_val) >= 2) =>
        /\ est.st = "returned"
        /\ est.lo.k = "num" /\ est.hi.k = "num"
        /\ LinearQuantileIs(SortAsc(y_val), 1, 4, est.lo.v)
        /\ LinearQuantileIs(SortAsc(y_val), 3, 4, est.hi.v)
        /\ SortAsc(y_val) = OneToTen =>
              (4 * est.lo.v = 13 * Unit /\ 4 * est.hi.v = 31 * Unit)

\* C7 witness: 'iqr' on a permutation of [1..10] gave 3.25 and 7.75
IqrLinearInterpolationSeen ==
    /\ pc = "dispatched" /\ args.inf = "iqr" /\ SortAsc(y_val) = OneToTen
    /\ y_val # OneToTen
    /\ est.st = "returned" /\ est.lo = Num(3250) /\ est.hi = Num(7750)

\* C8 as stated (for a level inside (0, 1)): every entry with 2 or more
\* observations computed by 'hdi', 'ci' or 'iqr' holds a pair of finite
\* numbers with low <= high.
IntervalWellFormed ==
    (InOpenUnit(args.conf_level) /\ args.inf \in {"hdi", "ci", "iqr"}) =>
        \A i \in 1..Len(datas) :
            Len(datas[i].y_val) >= 2 =>
                /\ datas[i].lo.k = "num" /\ datas[i].hi.k = "num"
                /\ datas[i].lo.v <= datas[i].hi.v

\* C9 as stated (for the methods that use the level): with a level outside
\* the open interval (0, 1) no interval is produced for any entry.
OutOfRangeLevelRejected ==
    (~InOpenUnit(args.conf_level) /\ args.inf \in {"hdi", "ci"}) =>
        \A i \in 1..Len(datas) : datas[i].lo = None

NothingBuilt ==
    datas = <<>> /\ traces = <<>> /\ calls = <<>> /\ ~ret.returned

\* C10 as stated: with inf outside 'hdi', 'ci', 'iqr', 'none' the call ends
\* in a ValueError before any group is read.
BadInfRaisesValueError ==
    (pc # "parse" /\ args.inf \notin Methods) =>
        pc = "raised" /\ raised.exc = "ValueError" /\ NothingBuilt

\* C10 amended: with inf outside 'hdi', 'ci', 'iqr', 'none' the call ends in
\* an argument error raised in stage 1, before any group is read, any
\* interval computed or any trace built, and nothing is returned: a
\* ValueError, except that a call without xcol ends in the TypeError of the
\* xcol check, which comes first; when the arguments checked before inf are
\* valid the error is the one of the inf check.
BadInfRaisesArgumentError ==
    (pc # "parse" /\ args.inf \notin Methods) =>
        /\ pc = "raised"
        /\ raised.exc = (IF args.xcol.none THEN "TypeError" ELSE "ValueError")
        /\ raised.at \in {"xcol", "ycol", "ycol and xcol", "orientation", "inf"}
        /\ (args.xcol = Given(<<"g">>) /\ args.ycol = NotGiven
               /\ args.orientation = "h") => raised = Exc("ValueError", "inf")
        /\ NothingBuilt

\* C10 witness: only inf is malformed, and its check raised
BadInfRaisesArgumentErrorSeen ==
    /\ pc = "raised" /\ args.inf = "bogus" /\ args.spanmode = "None"
    /\ raised = Exc("ValueError", "inf") /\ NothingBuilt

--------------------------------------------------------------------------
(* Properties of the direct calls of the estimators *)

HelperCalled == pc = "helper_done" /\ Len(calls) = 1

\* C11 as stated: t_test_ci and ttest_bayes_ci called directly on a sample
\* of fewer than 2 observations fail with an error and return no result.
ShortSampleRejected ==
    (HelperCalled /\ Len(y_val) < 2) =>
        /\ est.st = "raised"
        /\ est.lo = None /\ est.hi = None

\* sqrt(sum((x - mean)^2) / n) / sqrt(n) in 1/Unit, from the deviations in
\* 1/Unit
PopulationStdErr(x) ==
    LET n == Len(x)
        mean == (SeqSum(x) * Unit) \div n
        ss == SeqSum([i \in 1..n |->
                         (x[i] * Unit - mean) * (x[i] * Unit - mean)])
    IN  (ISqrt(ss \div n) * Unit) \div ISqrt(n * Unit * Unit)

\* equal up to the rounding of the fixed-point square roots, 1/Unit
Near(a, b) == a - b <= 1 /\ b - a <= 1

\* C13: on a sample of n >= 2 observations both estimators use n - 1 as
\* degrees of freedom, the arithmetic mean as centre, and
\* sqrt(sum((x - mean)^2) / n) / sqrt(n) as scale (divisor n); the interval
\* of t_test_ci is centre -/+ quantile * scale, and each endpoint of
\* ttest_bayes_ci is centre + scale * draw.
PopulationStdDev ==
    (HelperCalled /\ Len(y_val) >= 2) =>
        LET c == calls[1]
        IN  /\ c.df = Len(y_val) - 1
            /\ c.loc = Num((SeqSum(y_val) * Unit) \div Len(y_val))
            /\ c.scale.k = "num"
            /\ Near(c.scale.v, PopulationStdErr(y_val))
            /\ t_test_ci_args(y_val) = ttest_bayes_ci_args(y_val)
            /\ (c.fn = "t_test_ci" /\ InOpenUnit(args.conf_level)
                   /\ args.conf_level[1] > 0 /\ c.scale.v > 0) =>
                  LET half == (TQuantile(args.conf_level, c.df) * c.scale.v)
                                  \div Unit
                  IN  est = EstReturned(Num(c.loc.v - half),
                                        Num(c.loc.v + half))
            /\ (c.fn = "ttest_bayes_ci" /\ est.st = "returned") =>
                  \A e \in {est.lo, est.hi} :
                      \E d \in 1..Len(TDraws) :
                          e = Num((c.scale.v * TDraws[d]) \div Unit + c.loc.v)

\* C13 witness: both estimators ran on [0, 2], whose population standard
\* deviation is 1 (the n - 1 divisor gives 1.414): the scale is 0.707 and
\* the 95% interval of t_test_ci is 1 -/+ 12.706 * 0.707
PopulationStdDevSeen ==
    /\ HelperCalled /\ y_val = <<0, 2>>
    /\ calls[1].scale = Num(707) /\ calls[1].loc = Num(Unit)
    /\ calls[1].fn = "t_test_ci" /\ args.conf_level = <<19, 20>>
    /\ est = EstReturned(Num(-7983), Num(9983))

--------------------------------------------------------------------------
(* Frame properties *)

\* C12: a call of hdi_from_mcmc, returning or raising, leaves the caller's
\* sample with the same elements in the same order; computing the interval
\* of a group leaves y_val as it was read, and the entry stored for
\* rendering holds exactly these values, whatever the method.
NonMutation ==
    [][/\ posterior_samples' = posterior_samples
       /\ y_val' = y_val
       /\ datas' # datas =>
              /\ Len(datas') = Len(datas) + 1
              /\ datas'[Len(datas')].y_val = y_val]_vars

\* C12 witness: hdi_from_mcmc raised and then returned on one sample that
\* is still not in ascending order
NonMutationSeen ==
    /\ HdiCalled /\ prev.hdi.st = "raised" /\ hdi.st = "returned"
    /\ posterior_samples # SortAsc(posterior_samples)

--------------------------------------------------------------------------
(* The choice among windows of equal width *)

\* the width of the window that starts at index i (0-based)
WindowWidth(i) == HdiS[i + HdiK + 1] - HdiS[i + 1]

\* the start indices whose window has the least width
MinimalStarts ==
    {i \in 0..(HdiN - HdiK - 1) :
        \A j \in 0..(HdiN - HdiK - 1) : WindowWidth(i) <= WindowWidth(j)}

\* C14: the window returned starts at the lowest of the start indices of
\* least width, both endpoints are read at that index (low = S[i*],
\* high = S[i* + k], k = ceil(credible_mass * n)), and a second call with
\* the same sample and credible mass has the same outcome.
HdiTieBreak ==
    /\ (HdiCalled /\ hdi.st = "returned" /\ HdiK >= 0) =>
           /\ hdi.idx \in MinimalStarts
           /\ \A i \in MinimalStarts : hdi.idx <= i
           /\ hdi.end = hdi.idx + HdiK
           /\ hdi.lo = HdiS[hdi.idx + 1]
           /\ hdi.hi = HdiS[hdi.idx + HdiK + 1]
    /\ (HdiCalled /\ prev.hdi.st # "idle" /\ prev.mass = credible_mass) =>
           prev.hdi = hdi

\* C14 witness: two calls with the same mass on a sample where windows of
\* different widths exist, several start indices share the least width,
\* and the lowest of them, not index 0, was returned both times
HdiTieBreakSeen ==
    /\ HdiCalled /\ hdi.st = "returned" /\ HdiK >= 1
    /\ prev.hdi = hdi /\ prev.mass = credible_mass
    /\ Cardinality(MinimalStarts) >= 2
    /\ hdi.idx > 0
    /\ \E i \in MinimalStarts : i > hdi.idx

--------------------------------------------------------------------------
(* The traces of cmplot *)

\* the positions in traces of the traces of one kind for entry i
TracesFor(kind, i) ==
    {j \in 1..Len(traces) : traces[j].kind = kind /\ traces[j].entry = i}

\* C15: the entries of datas are turned into traces in order; each entry
\* processed has exactly one main trace, and after it exactly one interval
\* band carrying the entry's (lo, hi) if its lo is not None and no band
\* otherwise; so with inf = 'none' there is no band at all, and an entry of
\* fewer than 2 observations has its main trace and no band.
BandGating ==
    /\ \A j \in 1..Len(traces) : traces[j].entry \in 1..Traced
    /\ \A j, l \in 1..Len(traces) :
           j <= l => traces[j].entry <= traces[l].entry
    /\ Traced <= Len(datas)
    /\ \A i \in 1..Traced :
           /\ Cardinality(TracesFor("main", i)) = 1
           /\ Cardinality(TracesFor("band", i))
                  = (IF datas[i].lo # None THEN 1 ELSE 0)
           /\ \A b \in TracesFor("band", i) :
                  /\ traces[b].span = <<datas[i].lo, datas[i].hi>>
                  /\ \A m \in TracesFor("main", i) : m < b
           /\ (args.inf = "none" \/ Len(datas[i].y_val) < 2) =>
                  TracesFor("band", i) = {}
    /\ ret.returned => (ret.traces = traces /\ Traced = Len(datas))

\* C15 witness: a returned plot whose first group has one observation (a
\* main trace, no band) and whose second group has a main trace followed
\* by its band
BandGatingSeen ==
    /\ pc = "done" /\ ret.returned /\ Len(datas) = 2
    /\ Len(datas[1].y_val) = 1 /\ Len(datas[2].y_val) = 2
    /\ datas[2].lo # None /\ args.pointsmaxdisplayed = 0
    /\ Len(traces) = 3
    /\ traces[1].kind = "main" /\ traces[1].entry = 1
    /\ traces[2].kind = "main" /\ traces[2].entry = 2
    /\ traces[3].kind = "band" /\ traces[3].entry = 2

==========================================================================
